---------------------------- MODULE Spec2Model ----------------------------
(***************************************************************************)
(* iPXE PCI configuration-space access for EFI (interface/efi/efi_pci.c)   *)
(* and the 64-bit division helpers of the mathematical self-tests          *)
(* (tests/math_test.c).                                                    *)
(*                                                                         *)
(* The PCI layer is modelled against a mock EFI_PCI_ROOT_BRIDGE_IO         *)
(* protocol whose configuration space is an array of plain read/write      *)
(* byte registers indexed by the encoded configuration address.            *)
(***************************************************************************)
EXTENDS Integers, Sequences, FiniteSets, TLC

VARIABLES
    efipci,     \* static EFI_PCI_ROOT_BRIDGE_IO_PROTOCOL *efipci
    debug,      \* whether DBG() messages are compiled in for this object
    cfg,        \* substrate: configuration address -> byte register
    call,       \* the last efipci_read / efipci_write call and its result
    trace,      \* what the last call did, in order: transactions, DBG, return
    ncalls,     \* number of efipci_read / efipci_write calls made so far
    math,       \* arguments and result of a division self-test helper
    codec       \* arguments and result of an efipci_address evaluation

vars == <<efipci, debug, cfg, call, trace, ncalls, math, codec>>

---------------------------------------------------------------------------
(* Bounds of the model *)

\* Number of efipci_read / efipci_write calls in one behaviour.
MaxCalls == 2

\* Width in bits of the scaled-down "64-bit" integers of the division helpers.
Bits == 6

---------------------------------------------------------------------------
(* Macros that efi_pci.c takes from its headers *)

\* ipxe/pci.h: busdevfn is bus << 8 | slot << 3 | func
PCI_BUS(busdevfn) == (busdevfn \div 256) % 256
PCI_SLOT(busdevfn) == (busdevfn \div 8) % 32
PCI_FUNC(busdevfn) == busdevfn % 8
PCI_BUSDEVFN(bus, slot, func) == bus * 256 + slot * 8 + func

\* ipxe/efi/efi_pci_api.h: a location is the register offset tagged with
\* the EFI width code in the bits above the offset.
EFIPCI_WIDTH_BYTE == 0
EFIPCI_WIDTH_WORD == 1
EFIPCI_WIDTH_DWORD == 2
EFIPCI_LOCATION(offset, width) == offset + width * 65536
EFIPCI_OFFSET(location) == location % 65536
EFIPCI_WIDTH(location) == location \div 65536

\* EFI_PCI_ADDRESS packs bus, device, function and register into one
\* address.  Layout as documented for the address codec: bus in bits
\* 23-16, device in bits 15-11, function in bits 10-8, register in bits
\* 7-0.
EFI_PCI_ADDRESS(bus, dev, func, reg) ==
    bus * 65536 + dev * 2048 + func * 256 + reg

\* EFI_STATUS: zero is success, error codes have the top bit set, warnings
\* are small positive numbers.  The top bit is scaled down to bit 30.
EFI_SUCCESS == 0
EFIERR(n) == 2^30 + n
EFI_INVALID_PARAMETER == EFIERR(2)
EFI_UNSUPPORTED == EFIERR(3)
EFI_DEVICE_ERROR == EFIERR(7)
EFI_NOT_FOUND == EFIERR(14)
EFI_WARN_WRITE_FAILURE == 3

\* errno.h: the generic I/O error, and the error for a missing device
EIO == 5
ENODEV == 19

\* EFI_ERROR ( status ): whether the status has the error bit set
EFI_ERROR(status) == status >= 2^30

NULL == "NULL"

---------------------------------------------------------------------------
(* The mock substrate: a root bridge with plain read/write registers *)

\* Protocol instances the firmware may hand out
Handles == {"RootBridgeIo0", "RootBridgeIo1"}

\* Functions that are present behind the root bridge
Present == {PCI_BUSDEVFN(0, 0, 0), PCI_BUSDEVFN(1, 2, 3)}

\* A function that is not present
Absent == {PCI_BUSDEVFN(0, 31, 7)}

Devices == Present \cup Absent

WidthBytes(width) == 2^width

\* The registers modelled of every present function: one dword
Regs == 0..(WidthBytes(EFIPCI_WIDTH_DWORD) - 1)

\* Address of register r of function d at the substrate
RegAddress(d, r) == EFI_PCI_ADDRESS(PCI_BUS(d), PCI_SLOT(d), PCI_FUNC(d), r)

\* Addresses of the registers that exist
AddrSpace == {RegAddress(d, r) : d \in Present, r \in Regs}

\* Register contents at power-on: vendor and device identifier
Preload(d) ==
    IF d = PCI_BUSDEVFN(0, 0, 0) THEN <<134, 128, 14, 16>>
    ELSE <<236, 16, 57, 1>>

InitCfg ==
    [a \in AddrSpace |->
        LET d == CHOOSE x \in Present : \E r \in Regs : RegAddress(x, r) = a
        IN  Preload(d)[a - RegAddress(d, 0) + 1]]

\* Value of the len bytes at address and above, least significant first
RECURSIVE LoadBytes(_, _, _)
LoadBytes(mem, address, len) ==
    IF len = 0 THEN 0
    ELSE mem[address] + 256 * LoadBytes(mem, address + 1, len - 1)

\* mem with the low len bytes of data stored at address and above
StoreBytes(mem, address, len, data) ==
    [a \in DOMAIN mem |->
        IF a >= address /\ a < address + len
        THEN (data \div (256 ^ (a - address))) % 256
        ELSE mem[a]]

\* Status of a transaction: a fault, a refusal, or EFI_SUCCESS
PciCheck(mem, req, fault) ==
    IF fault # EFI_SUCCESS THEN fault
    ELSE IF req.Width \notin {EFIPCI_WIDTH_BYTE, EFIPCI_WIDTH_WORD,
                              EFIPCI_WIDTH_DWORD} \/ req.Count # 1
    THEN EFI_INVALID_PARAMETER
    ELSE IF req.Address % WidthBytes(req.Width) # 0 THEN EFI_UNSUPPORTED
    ELSE IF \E i \in 0..(WidthBytes(req.Width) - 1) :
                (req.Address + i) \notin DOMAIN mem
    THEN EFI_NOT_FOUND
    ELSE EFI_SUCCESS

NoData == "NoData"

\* Pci.Read: status, and on success the register contents in the buffer
PciRead(mem, req, fault) ==
    LET status == PciCheck(mem, req, fault) IN
    [Status |-> status,
     Buffer |-> IF status = EFI_SUCCESS
                THEN LoadBytes(mem, req.Address, WidthBytes(req.Width))
                ELSE NoData,
     mem |-> mem]

\* Pci.Write: status, and on success the registers hold the buffer
PciWrite(mem, req, buffer, fault) ==
    LET status == PciCheck(mem, req, fault) IN
    [Status |-> status,
     mem |-> IF status = EFI_SUCCESS
             THEN StoreBytes(mem, req.Address, WidthBytes(req.Width), buffer)
             ELSE mem]

\* Faults the substrate may report for any transaction (EFI_SUCCESS: none)
Faults == {EFI_SUCCESS, EFI_DEVICE_ERROR, EFI_WARN_WRITE_FAILURE}

---------------------------------------------------------------------------
(* efi_pci.c *)

\* DBG ( ... ): a record of the message's arguments, in a debug build
DBG(dbg, msg) == IF dbg THEN <<msg>> ELSE <<>>

\* efipci_address that encodes the whole location, width tag included
efipci_address_tagged(pci, location) ==
    EFI_PCI_ADDRESS(PCI_BUS(pci), PCI_SLOT(pci), PCI_FUNC(pci), location)

\* efipci_address that rounds the offset down to the access width
efipci_address_rounded(pci, location) ==
    EFI_PCI_ADDRESS(PCI_BUS(pci), PCI_SLOT(pci), PCI_FUNC(pci),
                    EFIPCI_OFFSET(location)
                    - (EFIPCI_OFFSET(location)
                       % WidthBytes(EFIPCI_WIDTH(location))))

efipci_address(pci, location) ==
    EFI_PCI_ADDRESS(PCI_BUS(pci), PCI_SLOT(pci), PCI_FUNC(pci),
                    EFIPCI_OFFSET(location))

\* efipci_read that takes only statuses with the error bit for failures
efipci_read_error_bit(This, dbg, pci, location, mem, fault) ==
    LET req == [This |-> This, Width |-> EFIPCI_WIDTH(location),
                Address |-> efipci_address(pci, location), Count |-> 1]
        res == PciRead(mem, req, fault)
        efirc == res.Status
        txn == [ev |-> "Pci.Read", req |-> req, efirc |-> efirc]
    IN  IF EFI_ERROR(efirc)
        THEN [trace |-> <<txn>>
                        \o DBG(dbg, [ev |-> "DBG", msg |-> "read",
                                     pci |-> pci,
                                     offset |-> EFIPCI_OFFSET(location),
                                     efirc |-> efirc])
                        \o <<[ev |-> "return", rc |-> -EIO]>>,
              rc |-> -EIO, value |-> res.Buffer, mem |-> res.mem,
              efipci |-> This]
        ELSE [trace |-> <<txn, [ev |-> "return", rc |-> 0]>>,
              rc |-> 0, value |-> res.Buffer, mem |-> res.mem,
              efipci |-> This]

\* efipci_read that reports a missing function as -ENODEV
efipci_read_nodev(This, dbg, pci, location, mem, fault) ==
    LET req == [This |-> This, Width |-> EFIPCI_WIDTH(location),
                Address |-> efipci_address(pci, location), Count |-> 1]
        res == PciRead(mem, req, fault)
        efirc == res.Status
        txn == [ev |-> "Pci.Read", req |-> req, efirc |-> efirc]
        errno == IF efirc = EFI_NOT_FOUND THEN -ENODEV ELSE -EIO
    IN  IF efirc # 0
        THEN [trace |-> <<txn>>
                        \o DBG(dbg, [ev |-> "DBG", msg |-> "read",
                                     pci |-> pci,
                                     offset |-> EFIPCI_OFFSET(location),
                                     efirc |-> efirc])
                        \o <<[ev |-> "return", rc |-> errno]>>,
              rc |-> errno, value |-> res.Buffer, mem |-> res.mem,
              efipci |-> This]
        ELSE [trace |-> <<txn, [ev |-> "return", rc |-> 0]>>,
              rc |-> 0, value |-> res.Buffer, mem |-> res.mem,
              efipci |-> This]

\* efipci_read that always asks for a byte
efipci_read_bytewide(This, dbg, pci, location, mem, fault) ==
    LET req == [This |-> This, Width |-> EFIPCI_WIDTH_BYTE,
                Address |-> efipci_address(pci, location), Count |-> 1]
        res == PciRead(mem, req, fault)
        efirc == res.Status
        txn == [ev |-> "Pci.Read", req |-> req, efirc |-> efirc]
    IN  IF efirc # 0
        THEN [trace |-> <<txn>>
                        \o DBG(dbg, [ev |-> "DBG", msg |-> "read",
                                     pci |-> pci,
                                     offset |-> EFIPCI_OFFSET(location),
                                     efirc |-> efirc])
                        \o <<[ev |-> "return", rc |-> -EIO]>>,
              rc |-> -EIO, value |-> res.Buffer, mem |-> res.mem,
              efipci |-> This]
        ELSE [trace |-> <<txn, [ev |-> "return", rc |-> 0]>>,
              rc |-> 0, value |-> res.Buffer, mem |-> res.mem,
              efipci |-> This]

\* efipci_read that issues a failed transaction a second time
efipci_read_retry(This, dbg, pci, location, mem, fault) ==
    LET req == [This |-> This, Width |-> EFIPCI_WIDTH(location),
                Address |-> efipci_address(pci, location), Count |-> 1]
        res == PciRead(mem, req, fault)
        efirc == res.Status
        txn == [ev |-> "Pci.Read", req |-> req, efirc |-> efirc]
    IN  IF efirc # 0
        THEN [trace |-> <<txn, txn>>
                        \o DBG(dbg, [ev |-> "DBG", msg |-> "read",
                                     pci |-> pci,
                                     offset |-> EFIPCI_OFFSET(location),
                                     efirc |-> efirc])
                        \o <<[ev |-> "return", rc |-> -EIO]>>,
              rc |-> -EIO, value |-> res.Buffer, mem |-> res.mem,
              efipci |-> This]
        ELSE [trace |-> <<txn, [ev |-> "return", rc |-> 0]>>,
              rc |-> 0, value |-> res.Buffer, mem |-> res.mem,
              efipci |-> This]

\* efipci_read without the debug message
efipci_read_silent(This, dbg, pci, location, mem, fault) ==
    LET req == [This |-> This, Width |-> EFIPCI_WIDTH(location),
                Address |-> efipci_address(pci, location), Count |-> 1]
        res == PciRead(mem, req, fault)
        efirc == res.Status
        txn == [ev |-> "Pci.Read", req |-> req, efirc |-> efirc]
    IN  IF efirc # 0
        THEN [trace |-> <<txn>>
                        \o <<[ev |-> "return", rc |-> -EIO]>>,
              rc |-> -EIO, value |-> res.Buffer, mem |-> res.mem,
              efipci |-> This]
        ELSE [trace |-> <<txn, [ev |-> "return", rc |-> 0]>>,
              rc |-> 0, value |-> res.Buffer, mem |-> res.mem,
              efipci |-> This]

\* efipci_read that drops the protocol pointer after a failure
efipci_read_unbind(This, dbg, pci, location, mem, fault) ==
    LET req == [This |-> This, Width |-> EFIPCI_WIDTH(location),
                Address |-> efipci_address(pci, location), Count |-> 1]
        res == PciRead(mem, req, fault)
        efirc == res.Status
        txn == [ev |-> "Pci.Read", req |-> req, efirc |-> efirc]
    IN  IF efirc # 0
        THEN [trace |-> <<txn>>
                        \o DBG(dbg, [ev |-> "DBG", msg |-> "read",
                                     pci |-> pci,
                                     offset |-> EFIPCI_OFFSET(location),
                                     efirc |-> efirc])
                        \o <<[ev |-> "return", rc |-> -EIO]>>,
              rc |-> -EIO, value |-> res.Buffer, mem |-> res.mem,
              efipci |-> NULL]
        ELSE [trace |-> <<txn, [ev |-> "return", rc |-> 0]>>,
              rc |-> 0, value |-> res.Buffer, mem |-> res.mem,
              efipci |-> This]

efipci_read(This, dbg, pci, location, mem, fault) ==
    LET req == [This |-> This, Width |-> EFIPCI_WIDTH(location),
                Address |-> efipci_address(pci, location), Count |-> 1]
        res == PciRead(mem, req, fault)
        efirc == res.Status
        txn == [ev |-> "Pci.Read", req |-> req, efirc |-> efirc]
    IN  IF efirc # 0
        THEN [trace |-> <<txn>>
                        \o DBG(dbg, [ev |-> "DBG", msg |-> "read",
                                     pci |-> pci,
                                     offset |-> EFIPCI_OFFSET(location),
                                     efirc |-> efirc])
                        \o <<[ev |-> "return", rc |-> -EIO]>>,
              rc |-> -EIO, value |-> res.Buffer, mem |-> res.mem,
              efipci |-> This]
        ELSE [trace |-> <<txn, [ev |-> "return", rc |-> 0]>>,
              rc |-> 0, value |-> res.Buffer, mem |-> res.mem,
              efipci |-> This]

\* efipci_write that always stores a dword
efipci_write_dword(This, dbg, pci, location, value, mem, fault) ==
    LET req == [This |-> This, Width |-> EFIPCI_WIDTH_DWORD,
                Address |-> efipci_address(pci, location), Count |-> 1]
        res == PciWrite(mem, req, value, fault)
        efirc == res.Status
        txn == [ev |-> "Pci.Write", req |-> req, efirc |-> efirc]
    IN  IF efirc # 0
        THEN [trace |-> <<txn>>
                        \o DBG(dbg, [ev |-> "DBG", msg |-> "write",
                                     pci |-> pci,
                                     offset |-> EFIPCI_OFFSET(location),
                                     efirc |-> efirc])
                        \o <<[ev |-> "return", rc |-> -EIO]>>,
              rc |-> -EIO, value |-> value, mem |-> res.mem,
              efipci |-> This]
        ELSE [trace |-> <<txn, [ev |-> "return", rc |-> 0]>>,
              rc |-> 0, value |-> value, mem |-> res.mem,
              efipci |-> This]

efipci_write(This, dbg, pci, location, value, mem, fault) ==
    LET req == [This |-> This, Width |-> EFIPCI_WIDTH(location),
                Address |-> efipci_address(pci, location), Count |-> 1]
        res == PciWrite(mem, req, value, fault)
        efirc == res.Status
        txn == [ev |-> "Pci.Write", req |-> req, efirc |-> efirc]
    IN  IF efirc # 0
        THEN [trace |-> <<txn>>
                        \o DBG(dbg, [ev |-> "DBG", msg |-> "write",
                                     pci |-> pci,
                                     offset |-> EFIPCI_OFFSET(location),
                                     efirc |-> efirc])
                        \o <<[ev |-> "return", rc |-> -EIO]>>,
              rc |-> -EIO, value |-> value, mem |-> res.mem,
              efipci |-> This]
        ELSE [trace |-> <<txn, [ev |-> "return", rc |-> 0]>>,
              rc |-> 0, value |-> value, mem |-> res.mem,
              efipci |-> This]

---------------------------------------------------------------------------
(* Inputs of the PCI layer *)

Widths == {EFIPCI_WIDTH_BYTE, EFIPCI_WIDTH_WORD, EFIPCI_WIDTH_DWORD}

\* Locations whose access lies within the modelled registers; the word at
\* offset 1 is not aligned to its width.
Locations ==
    {EFIPCI_LOCATION(o, w) : o \in Regs, w \in Widths} \ 
    {l \in {EFIPCI_LOCATION(o, w) : o \in Regs, w \in Widths} :
        EFIPCI_OFFSET(l) + WidthBytes(EFIPCI_WIDTH(l)) - 1 \notin Regs}

\* Values written, per width code
Values(width) ==
    CASE width = EFIPCI_WIDTH_BYTE -> {90}
      [] width = EFIPCI_WIDTH_WORD -> {7}
      [] OTHER -> {305419896}

NoCall == [op |-> "none"]
NoMath == [op |-> "none"]
NoCodec == [op |-> "none"]

---------------------------------------------------------------------------
(* State machine of the PCI layer *)

Init ==
    /\ efipci = NULL
    /\ debug \in BOOLEAN
    /\ cfg = InitCfg
    /\ call = NoCall
    /\ trace = <<>>
    /\ ncalls = 0
    /\ math = NoMath
    /\ codec = NoCodec

\* EFI_REQUIRE_PROTOCOL: the protocol is located once, at initialisation
EfiRequireProtocol ==
    /\ efipci = NULL
    /\ efipci' \in Handles
    /\ UNCHANGED <<debug, cfg, call, trace, ncalls, math, codec>>

EfipciRead ==
    /\ efipci # NULL
    /\ ncalls < MaxCalls
    /\ \E pci \in Devices, location \in Locations, fault \in Faults :
        LET r == efipci_read(efipci, debug, pci, location, cfg, fault) IN
        /\ call' = [op |-> "read", pci |-> pci, location |-> location,
                    value |-> r.value, rc |-> r.rc]
        /\ trace' = r.trace
        /\ cfg' = r.mem
        /\ efipci' = r.efipci
    /\ ncalls' = ncalls + 1
    /\ UNCHANGED <<debug, math, codec>>

EfipciWrite ==
    /\ efipci # NULL
    /\ ncalls < MaxCalls
    /\ \E pci \in Devices, location \in Locations, fault \in Faults :
       \E value \in Values(EFIPCI_WIDTH(location)) :
        LET r == efipci_write(efipci, debug, pci, location, value, cfg, fault)
        IN
        /\ call' = [op |-> "write", pci |-> pci, location |-> location,
                    value |-> r.value, rc |-> r.rc]
        /\ trace' = r.trace
        /\ cfg' = r.mem
        /\ efipci' = r.efipci
    /\ ncalls' = ncalls + 1
    /\ UNCHANGED <<debug, math, codec>>

Next == EfiRequireProtocol \/ EfipciRead \/ EfipciWrite

Spec == Init /\ [][Next]_vars

---------------------------------------------------------------------------
(* The address encoding on its own *)

Buses == {0, 1, 255}
Slots == {0, 1, 31}
Funcs == {0, 1, 7}

\* Register offsets of the 256-byte configuration space, aligned to width
Offsets(width) ==
    {o \in {0, 1, 2, 4, 252, 254, 255} : o % WidthBytes(width) = 0}

CodecInit ==
    /\ efipci = NULL
    /\ debug = FALSE
    /\ cfg = InitCfg
    /\ call = NoCall
    /\ trace = <<>>
    /\ ncalls = 0
    /\ math = NoMath
    /\ \E bus \in Buses, slot \in Slots, func \in Funcs, width \in Widths :
       \E offset \in Offsets(width) :
        codec = [op |-> "args", bus |-> bus, slot |-> slot, func |-> func,
                 offset |-> offset, width |-> width]

\* efipci_address applied to a pci_device and a location
EfipciAddress ==
    /\ codec.op = "args"
    /\ codec' = [op |-> "address", bus |-> codec.bus, slot |-> codec.slot,
                 func |-> codec.func, offset |-> codec.offset,
                 width |-> codec.width,
                 address |->
                    efipci_address(
                        PCI_BUSDEVFN(codec.bus, codec.slot, codec.func),
                        EFIPCI_LOCATION(codec.offset, codec.width))]
    /\ UNCHANGED <<efipci, debug, cfg, call, trace, ncalls, math>>

SpecCodec == CodecInit /\ [][EfipciAddress]_vars

---------------------------------------------------------------------------
(* math_test.c: the division helpers, on integers of Bits bits *)

Modulus == 2^Bits

\* Conversion to uint64_t and to int64_t
ToU64(x) == x % Modulus
ToS64(x) ==
    IF x % Modulus >= Modulus \div 2 THEN (x % Modulus) - Modulus
    ELSE x % Modulus

INT64_MIN == -(Modulus \div 2)

Abs(x) == IF x < 0 THEN -x ELSE x

\* Division rounding toward minus infinity
FloorDiv(a, b) ==
    IF (a < 0) = (b < 0) THEN Abs(a) \div Abs(b)
    ELSE -((Abs(a) + Abs(b) - 1) \div Abs(b))

\* dividend / divisor: the quotient with its fraction discarded
CDiv(a, b) ==
    IF (a < 0) = (b < 0) THEN Abs(a) \div Abs(b)
    ELSE -(Abs(a) \div Abs(b))

\* dividend % divisor: ( a / b ) * b + a % b is a
CMod(a, b) == a - b * CDiv(a, b)

\* The quotient of a signed division that its type cannot hold
SignedOverflow(a, b) == a = INT64_MIN /\ b = -1

\* check_divmod: the operation is carried out in both iterations of the
\* loop, on the same operands; the result of the last one is kept in a
\* uint64_t.
check_divmod(dividend, divisor, OP) ==
    ToU64(IF OP = "/" THEN CDiv(dividend, divisor)
          ELSE CMod(dividend, divisor))

u64div_var(dividend, divisor) == check_divmod(dividend, divisor, "/")

u64mod_var(dividend, divisor) == check_divmod(dividend, divisor, "%")

\* s64div_var with the quotient rounded toward minus infinity
s64div_var_floor(dividend, divisor) ==
    ToS64(ToU64(FloorDiv(dividend, divisor)))

s64div_var(dividend, divisor) == ToS64(check_divmod(dividend, divisor, "/"))

s64mod_var(dividend, divisor) == ToS64(check_divmod(dividend, divisor, "%"))

MathInit ==
    /\ efipci = NULL
    /\ debug = FALSE
    /\ cfg = InitCfg
    /\ call = NoCall
    /\ trace = <<>>
    /\ ncalls = 0
    /\ codec = NoCodec
    /\ \E x \in 0..(Modulus - 1), y \in 1..(Modulus - 1) :
        math = [op |-> "args", dividend |-> x, divisor |-> y]

\* u64div_var and u64mod_var on the operands as unsigned integers
U64DivMod ==
    /\ math.op = "args"
    /\ math' = [op |-> "u64", dividend |-> math.dividend,
                divisor |-> math.divisor, trapped |-> FALSE,
                quotient |-> u64div_var(math.dividend, math.divisor),
                remainder |-> u64mod_var(math.dividend, math.divisor)]
    /\ UNCHANGED <<efipci, debug, cfg, call, trace, ncalls, codec>>

\* s64div_var and s64mod_var on the operands as signed integers.  A
\* quotient that overflows is undefined: the division instruction traps,
\* or the library routine returns the wrapped quotient.
S64DivMod ==
    /\ math.op = "args"
    /\ LET a == ToS64(math.dividend)
           b == ToS64(math.divisor)
       IN  \E trap \in (IF SignedOverflow(a, b) THEN BOOLEAN ELSE {FALSE}) :
            math' = IF trap
                    THEN [op |-> "s64", dividend |-> a, divisor |-> b,
                          trapped |-> TRUE]
                    ELSE [op |-> "s64", dividend |-> a, divisor |-> b,
                          trapped |-> FALSE,
                          quotient |-> s64div_var(a, b),
                          remainder |-> s64mod_var(a, b)]
    /\ UNCHANGED <<efipci, debug, cfg, call, trace, ncalls, codec>>

MathNext == U64DivMod \/ S64DivMod

SpecMath == MathInit /\ [][MathNext]_vars

---------------------------------------------------------------------------
(* Properties of the PCI layer *)

IsTxn(e) == e.ev \in {"Pci.Read", "Pci.Write"}
IsDbg(e) == e.ev = "DBG"

\* The substrate transactions and the debug messages of the last call
Txns == SelectSeq(trace, IsTxn)
Dbgs == SelectSeq(trace, IsDbg)

Called == call.op # "none"

\* The firmware status the last call received
Status == Txns[Len(Txns)].efirc

CallWidth == EFIPCI_WIDTH(call.location)
CallOffset == EFIPCI_OFFSET(call.location)

Misaligned(location) ==
    EFIPCI_OFFSET(location) % WidthBytes(EFIPCI_WIDTH(location)) # 0

\* C1: efipci_read and efipci_write return 0 exactly when the firmware
\* status is EFI_SUCCESS, and -EIO for every other status, whatever its
\* value: no failure is reported as success.
C1_SuccessIffStatusZero ==
    Called =>
        /\ Len(Txns) >= 1
        /\ (call.rc = 0) <=> (Status = EFI_SUCCESS)
        /\ (Status # EFI_SUCCESS) => (call.rc = -EIO /\ call.rc # 0)
        /\ trace[Len(trace)] = [ev |-> "return", rc |-> call.rc]

\* A read that received a warning status (no error bit) returned -EIO
C1_WarningRead ==
    /\ call.op = "read"
    /\ Status = EFI_WARN_WRITE_FAILURE
    /\ call.rc = -EIO

\* C2 as stated: a read of a function the substrate reports as not found
\* returns an error of its own, NoDevice, distinct from the I/O error.
C2_NotFoundIsNoDevice ==
    (Called /\ call.op = "read" /\ Status = EFI_NOT_FOUND) =>
        (call.rc # 0 /\ call.rc # -EIO)

\* C2 amended: a read of a function the substrate reports as not found
\* returns -EIO, the same error as for every other failed transaction, and
\* stores no value.
C2_NotFoundIsEIO ==
    (Called /\ call.op = "read" /\ Status = EFI_NOT_FOUND) =>
        (call.rc = -EIO /\ call.value = NoData)

\* A read addressed to the absent function got EFI_NOT_FOUND
C2_AbsentRead ==
    /\ call.op = "read"
    /\ call.pci \in Absent
    /\ Status = EFI_NOT_FOUND
    /\ call.rc = -EIO

C4_OneTransaction ==
    Called =>
        /\ Len(Txns) = 1
        /\ Txns[1].ev = (IF call.op = "read" THEN "Pci.Read" ELSE "Pci.Write")
        /\ Txns[1].req.Count = 1
        /\ Txns[1].req.Width = CallWidth

\* A dword call failed after its one transaction
C4_FailedDword ==
    /\ Called
    /\ call.rc # 0
    /\ CallWidth = EFIPCI_WIDTH_DWORD
    /\ Len(Txns) = 1

\* C6 as stated: no substrate transaction is issued for an access whose
\* offset is not aligned to its width.
C6_MisalignedRejected ==
    (Called /\ Misaligned(call.location)) => Len(Txns) = 0

\* C6 amended: an access whose offset is not aligned to its width is
\* passed on: one transaction is issued for it, with the declared width
\* and the offset as given, neither rounded nor truncated.
C6_MisalignedPassedOn ==
    (Called /\ Misaligned(call.location)) =>
        /\ Len(Txns) = 1
        /\ Txns[1].req.Width = CallWidth
        /\ Txns[1].req.Address = RegAddress(call.pci, CallOffset)
        /\ Txns[1].req.Address % WidthBytes(CallWidth) # 0

\* The substrate refused a misaligned word access and the call failed
C6_MisalignedWord ==
    /\ Called
    /\ Misaligned(call.location)
    /\ CallWidth = EFIPCI_WIDTH_WORD
    /\ Status = EFI_UNSUPPORTED
    /\ call.rc = -EIO

C8_HandleKept ==
    [][/\ (efipci # NULL) => (efipci' = efipci)
       /\ \A i \in 1..Len(trace') :
            IsTxn(trace'[i]) => (trace'[i].req.This = efipci')]_vars

\* After a failed second call the pointer is still a protocol instance
C8_BoundAfterFailure ==
    /\ Called
    /\ call.rc # 0
    /\ ncalls >= 2
    /\ efipci \in Handles
    /\ Txns[1].req.This = efipci

\* C10: a write of width w at offset o changes at most the registers
\* o..o+w-1 of the function written to; every other register, of this and
\* of every other function, is unchanged, and a read changes no register.
C10_WriteFrame ==
    [][/\ DOMAIN cfg' = DOMAIN cfg
       /\ \A a \in DOMAIN cfg :
            (cfg'[a] # cfg[a]) =>
                /\ call'.op = "write"
                /\ \E i \in 0..(WidthBytes(EFIPCI_WIDTH(call'.location)) - 1) :
                     a = RegAddress(call'.pci,
                                    EFIPCI_OFFSET(call'.location) + i)]_vars

\* A word write changed the registers it addresses
C10_WordWritten ==
    /\ call.op = "write"
    /\ call.rc = 0
    /\ CallWidth = EFIPCI_WIDTH_WORD
    /\ cfg # InitCfg
    /\ LoadBytes(cfg, RegAddress(call.pci, CallOffset), 2) = call.value

---------------------------------------------------------------------------
(* Properties of the address encoding *)

DecodeBus(address) == address \div 65536
DecodeSlot(address) == (address \div 2048) % 32
DecodeFunc(address) == (address \div 256) % 8
DecodeReg(address) == address % 256

\* C5: decoding the address efipci_address produces recovers the bus,
\* device, function and register it was given, whatever the width tag of
\* the location, so different tuples never share an address.
C5_AddressDecodes ==
    (codec.op = "address") =>
        /\ DecodeBus(codec.address) = codec.bus
        /\ DecodeSlot(codec.address) = codec.slot
        /\ DecodeFunc(codec.address) = codec.func
        /\ DecodeReg(codec.address) = codec.offset
        /\ codec.address =
              EFI_PCI_ADDRESS(codec.bus, codec.slot, codec.func, codec.offset)

\* The last dword register of the highest function was encoded
C5_HighestDword ==
    /\ codec.op = "address"
    /\ codec.bus = 255 /\ codec.slot = 31 /\ codec.func = 7
    /\ codec.offset = 252 /\ codec.width = EFIPCI_WIDTH_DWORD
    /\ DecodeReg(codec.address) = 252

---------------------------------------------------------------------------
(* Properties of the division helpers *)

Divided == math.op \in {"u64", "s64"}

\* Quotient and remainder agree with the operands as the self-test's
\* sanity check has it, and the division truncates toward zero.
DivModLaws ==
    /\ ToU64(math.divisor * math.quotient + math.remainder)
          = ToU64(math.dividend)
    /\ Abs(math.remainder) < Abs(math.divisor)
    /\ Abs(math.quotient * math.divisor) <= Abs(math.dividend)
    /\ math.remainder = 0 \/ (math.remainder < 0) = (math.dividend < 0)
    /\ (math.dividend = 0) => (math.quotient = 0 /\ math.remainder = 0)
    /\ (math.op = "u64") => (math.quotient >= 0 /\ math.remainder >= 0)

\* C9 as stated: for every dividend and non-zero divisor the helpers
\* return a quotient and a remainder with divisor * q + r = dividend, the
\* signed division truncating toward zero.
C9_DivModEveryOperand ==
    Divided => (~math.trapped /\ DivModLaws)

\* C9 amended: the same, for every dividend and non-zero divisor but the
\* signed division of the most negative integer by -1, whose quotient
\* overflows.
C9_DivModNoOverflow ==
    (Divided /\ ~(math.op = "s64"
                  /\ SignedOverflow(math.dividend, math.divisor))) =>
        (~math.trapped /\ DivModLaws)

\* A negative dividend and a positive divisor that does not divide it
C9_NegativeDividend ==
    /\ math.op = "s64"
    /\ math.dividend < 0 /\ math.divisor > 0
    /\ ~math.trapped
    /\ math.quotient < 0 /\ math.remainder < 0

=============================================================================
